---- MODULE Spec2Model ----
(***************************************************************************)
(* A model of the terminal Mandelbrot viewer of src/src/main.rs: the App   *)
(* main loop (run / handle_events), the Mandelbrot viewport operations on  *)
(* a u16 depth and four f64 bounds, and the Widget::render pass.           *)
(*                                                                         *)
(* f64 values are modelled bit-exactly (IEEE-754 binary64, round to        *)
(* nearest, ties to even).  TLC's integers are 32 bits wide, so the 53-bit *)
(* significands are kept as little-endian sequences of 15-bit limbs.       *)
(***************************************************************************)
EXTENDS Integers, Sequences, FiniteSets, TLC

(***************************************************************************)
(* Natural numbers of any size: little-endian limbs, no leading zero limb, *)
(* zero is the empty sequence.                                             *)
(***************************************************************************)
LimbBits == 15
Limb == 32768

Max(a, b) == IF a >= b THEN a ELSE b
Min(a, b) == IF a <= b THEN a ELSE b

RECURSIVE BNorm(_)
BNorm(a) ==
    IF a = <<>> THEN <<>>
    ELSE IF a[Len(a)] = 0 THEN BNorm(SubSeq(a, 1, Len(a) - 1))
    ELSE a

RECURSIVE BFromNat(_)
BFromNat(n) == IF n = 0 THEN <<>> ELSE <<n % Limb>> \o BFromNat(n \div Limb)

RECURSIVE BAddC(_, _, _)
BAddC(a, b, c) ==
    IF a = <<>> /\ b = <<>> THEN (IF c = 0 THEN <<>> ELSE <<c>>)
    ELSE LET x == IF a = <<>> THEN 0 ELSE Head(a)
             y == IF b = <<>> THEN 0 ELSE Head(b)
             t == x + y + c
         IN  <<t % Limb>> \o BAddC(IF a = <<>> THEN a ELSE Tail(a),
                                   IF b = <<>> THEN b ELSE Tail(b), t \div Limb)

BAdd(a, b) == BAddC(a, b, 0)

\* a - b - c for a >= b + c, limb by limb with a borrow
RECURSIVE BSubC(_, _, _)
BSubC(a, b, c) ==
    IF a = <<>> THEN <<>>
    ELSE LET y == IF b = <<>> THEN 0 ELSE Head(b)
             t == Head(a) - y - c
         IN  <<(t + Limb) % Limb>>
               \o BSubC(Tail(a), IF b = <<>> THEN b ELSE Tail(b), IF t < 0 THEN 1 ELSE 0)

BSub(a, b) == BNorm(BSubC(a, b, 0))

\* a * d + c for one limb d and a carry c
RECURSIVE BMulSmall(_, _, _)
BMulSmall(a, d, c) ==
    IF a = <<>> THEN (IF c = 0 THEN <<>> ELSE <<c>>)
    ELSE LET p == Head(a) * d + c
         IN  <<p % Limb>> \o BMulSmall(Tail(a), d, p \div Limb)

BShiftLimbs(a, q) == IF a = <<>> THEN <<>> ELSE [i \in 1..q |-> 0] \o a

RECURSIVE BMul(_, _)
BMul(a, b) ==
    IF a = <<>> \/ b = <<>> THEN <<>>
    ELSE BAdd(BNorm(BMulSmall(a, Head(b), 0)), BShiftLimbs(BMul(a, Tail(b)), 1))

\* -1, 0, 1 as a < b, a = b, a > b
RECURSIVE BCmpAt(_, _, _)
BCmpAt(a, b, i) ==
    IF i = 0 THEN 0
    ELSE IF a[i] < b[i] THEN -1
    ELSE IF a[i] > b[i] THEN 1
    ELSE BCmpAt(a, b, i - 1)

BCmp(a, b) ==
    IF Len(a) < Len(b) THEN -1
    ELSE IF Len(a) > Len(b) THEN 1
    ELSE BCmpAt(a, b, Len(a))

RECURSIVE BitLenSmall(_)
BitLenSmall(x) == IF x = 0 THEN 0 ELSE 1 + BitLenSmall(x \div 2)

BBitLen(a) == IF a = <<>> THEN 0 ELSE LimbBits * (Len(a) - 1) + BitLenSmall(a[Len(a)])

\* a * 2^n
BShl(a, n) == BShiftLimbs(BMulSmall(a, 2 ^ (n % LimbBits), 0), n \div LimbBits)

\* a \div 2^n
BShr(a, n) ==
    LET q == n \div LimbBits
        r == n % LimbBits
        d == IF q >= Len(a) THEN <<>> ELSE SubSeq(a, q + 1, Len(a))
    IN  BNorm([i \in 1..Len(d) |->
                 (d[i] \div (2 ^ r))
                 + (IF i < Len(d) THEN (d[i + 1] % (2 ^ r)) * (2 ^ (LimbBits - r)) ELSE 0)])

\* bit i of a, bit 0 the lowest
BBit(a, i) ==
    IF i \div LimbBits >= Len(a) THEN 0
    ELSE (a[i \div LimbBits + 1] \div (2 ^ (i % LimbBits))) % 2

\* a % 2^n = 0
BLowZero(a, n) ==
    LET q == n \div LimbBits
    IN  /\ \A i \in 1..Min(q, Len(a)) : a[i] = 0
        /\ q < Len(a) => a[q + 1] % (2 ^ (n % LimbBits)) = 0

\* the j low bits of limb x still to bring down, from the top: q the quotient
\* bits so far, r < d the remainder so far
RECURSIVE BDivBits(_, _, _, _, _)
\* r2 is the remainder with the next bit brought down
BDivStep(q, r2, x, d, j) ==
    IF BCmp(r2, d) >= 0 THEN BDivBits(2 * q + 1, BSub(r2, d), x, d, j - 1)
    ELSE BDivBits(2 * q, r2, x, d, j - 1)
BDivBits(q, r, x, d, j) ==
    IF j = 0 THEN [q |-> q, r |-> r]
    ELSE BDivStep(q, BAdd(BShl(r, 1), IF (x \div (2 ^ (j - 1))) % 2 = 1 THEN <<1>> ELSE <<>>),
                  x, d, j)

\* <<a \div d, a % d>> for d # 0: long division, one limb of a at a time from the top
RECURSIVE BDivMod(_, _)
BDivJoin(qhi, lo) == <<BNorm(<<lo.q>> \o qhi), lo.r>>
\* hi is the result for the limbs above x
BDivLimb(hi, x, d) ==
    IF hi[2] = <<>> /\ x = 0 THEN <<BShiftLimbs(hi[1], 1), <<>> >>
    ELSE BDivJoin(hi[1], BDivBits(0, hi[2], x, d, LimbBits))
BDivMod(a, d) ==
    IF a = <<>> THEN << <<>>, <<>> >>
    ELSE BDivLimb(BDivMod(Tail(a), d), Head(a), d)

(***************************************************************************)
(* f64.  A value is [k, s, e, m]: k its class ("nan", "inf" or "fin"),    *)
(* s = 1 for a set sign bit, and for a finite value the magnitude m * 2^e  *)
(* with m < 2^53 and e >= -1074, m >= 2^52 unless e = -1074 (subnormal or  *)
(* zero).  Every f64 has exactly one such record, so = on records is       *)
(* equality of bit patterns (NaN payloads aside).                          *)
(***************************************************************************)
MantBits == 53
MinExp == -1074
MaxFinExp == 971
AbsorbGap == 60

NaN == [k |-> "nan", s |-> 0, e |-> 0, m |-> <<>>]
Inf(s) == [k |-> "inf", s |-> s, e |-> 0, m |-> <<>>]
Zero(s) == [k |-> "fin", s |-> s, e |-> MinExp, m |-> <<>>]
IsZero(a) == a.k = "fin" /\ a.m = <<>>
SignXor(a, b) == (a.s + b.s) % 2

\* the f64 nearest to (-1)^s * m * 2^e, ties to even
Finite(s, m, e) ==
    IF e > MaxFinExp THEN Inf(s) ELSE [k |-> "fin", s |-> s, e |-> e, m |-> m]
\* r is the rounded significand at exponent e: one bit too long when the
\* rounding carried out of the top
RoundCarry(s, r, e) ==
    IF r = <<>> THEN Zero(s)
    ELSE IF BBitLen(r) > MantBits THEN Finite(s, BShr(r, 1), e + 1)
    ELSE Finite(s, r, e)
\* q is m without its sh low bits: round up when the bits cut off are more
\* than half a unit of q, or exactly half and q is odd
RoundCut(s, m, sh, q, e) ==
    RoundCarry(s,
               IF /\ BBit(m, sh - 1) = 1
                  /\ (~BLowZero(m, sh - 1) \/ BBit(q, 0) = 1)
               THEN BAdd(q, <<1>>) ELSE q,
               e)
\* e1 is the exponent of the result's last place
RoundAt(s, m, e, e1) ==
    IF e1 <= e THEN RoundCarry(s, BShl(m, e - e1), e1)
    ELSE RoundCut(s, m, e1 - e, BShr(m, e1 - e), e1)
RoundF(s, m, e) ==
    IF m = <<>> THEN Zero(s)
    ELSE RoundAt(s, m, e, Max(e + BBitLen(m) - MantBits, MinExp))

FromInt(n) == RoundF(IF n < 0 THEN 1 ELSE 0, BFromNat(IF n < 0 THEN -n ELSE n), 0)

FNeg(a) == IF a.k = "nan" THEN a ELSE [a EXCEPT !.s = 1 - a.s]

\* -1, 0, 1 as |a| < |b|, |a| = |b|, |a| > |b|, for finite a and b
CmpMag(a, b) ==
    LET e0 == Min(a.e, b.e)
    IN  IF a.m = <<>> \/ b.m = <<>> THEN BCmp(a.m, b.m)
        ELSE IF a.e + BBitLen(a.m) < b.e + BBitLen(b.m) THEN -1
        ELSE IF a.e + BBitLen(a.m) > b.e + BBitLen(b.m) THEN 1
        ELSE BCmp(BShl(a.m, a.e - e0), BShl(b.m, b.e - e0))

\* (-1)^sa * x * 2^e0 + (-1)^sb * y * 2^e0, where c compares x with y
AddSigned(sa, x, sb, y, e0, c) ==
    IF sa # sb /\ c = 0 THEN Zero(0)
    ELSE RoundF(IF sa = sb \/ c > 0 THEN sa ELSE sb,
                IF sa = sb THEN BAdd(x, y)
                ELSE IF c > 0 THEN BSub(x, y) ELSE BSub(y, x),
                e0)
AddAligned(sa, x, sb, y, e0) == AddSigned(sa, x, sb, y, e0, BCmp(x, y))

\* a + b
FAdd(a, b) ==
    IF a.k = "nan" \/ b.k = "nan" THEN NaN
    ELSE IF a.k = "inf" THEN (IF b.k = "inf" /\ b.s # a.s THEN NaN ELSE a)
    ELSE IF b.k = "inf" THEN b
    ELSE IF IsZero(a) /\ IsZero(b) THEN Zero(IF a.s = 1 /\ b.s = 1 THEN 1 ELSE 0)
    ELSE IF IsZero(a) THEN b
    ELSE IF IsZero(b) THEN a
    \* an operand below 2^-7 of the other's last place rounds away entirely
    ELSE IF a.e - b.e > AbsorbGap THEN a
    ELSE IF b.e - a.e > AbsorbGap THEN b
    ELSE AddAligned(a.s, BShl(a.m, a.e - Min(a.e, b.e)),
                    b.s, BShl(b.m, b.e - Min(a.e, b.e)), Min(a.e, b.e))

\* a - b
FSub(a, b) == FAdd(a, FNeg(b))

\* a * b
FMul(a, b) ==
    IF a.k = "nan" \/ b.k = "nan" THEN NaN
    ELSE IF a.k = "inf" \/ b.k = "inf"
         THEN (IF IsZero(a) \/ IsZero(b) THEN NaN ELSE Inf(SignXor(a, b)))
    ELSE RoundF(SignXor(a, b), BMul(a.m, b.m), a.e + b.e)

\* the quotient qr[1] gets one more low bit, set when the division left a
\* remainder qr[2]
DivSticky(s, qr, e) ==
    RoundF(s, BAdd(BShl(qr[1], 1), IF qr[2] = <<>> THEN <<>> ELSE <<1>>), e - 1)
\* (am * 2^sh) / bm carries enough bits to round
DivShifted(s, am, bm, e, sh) == DivSticky(s, BDivMod(BShl(am, sh), bm), e - sh)

\* a / b
FDiv(a, b) ==
    IF a.k = "nan" \/ b.k = "nan" THEN NaN
    ELSE IF a.k = "inf" THEN (IF b.k = "inf" THEN NaN ELSE Inf(SignXor(a, b)))
    ELSE IF b.k = "inf" THEN Zero(SignXor(a, b))
    ELSE IF IsZero(b) THEN (IF IsZero(a) THEN NaN ELSE Inf(SignXor(a, b)))
    ELSE IF IsZero(a) THEN Zero(SignXor(a, b))
    ELSE IF BLowZero(b.m, BBitLen(b.m) - 1)
         \* the divisor is a power of two: the quotient is exact before rounding
         THEN RoundF(SignXor(a, b), a.m, a.e - b.e - (BBitLen(b.m) - 1))
    ELSE DivShifted(SignXor(a, b), a.m, b.m, a.e - b.e,
                    Max(0, MantBits + 2 + BBitLen(b.m) - BBitLen(a.m)))

\* a < b
FLt(a, b) ==
    IF a.k = "nan" \/ b.k = "nan" THEN FALSE
    ELSE IF IsZero(a) /\ IsZero(b) THEN FALSE
    ELSE IF a.s # b.s THEN a.s = 1
    ELSE IF a.k = "inf" \/ b.k = "inf"
         THEN (IF a.k = b.k THEN FALSE ELSE IF a.s = 0 THEN b.k = "inf" ELSE a.k = "inf")
    ELSE IF a.s = 0 THEN CmpMag(a, b) < 0
    ELSE CmpMag(a, b) > 0

\* f64 literals of the source, as rustc parses them (the nearest f64)
F0_1 == [k |-> "fin", s |-> 0, e |-> -56, m |-> <<6554, 13107, 26214, 204>>]  \* 0x3FB999999999999A
F0_9 == [k |-> "fin", s |-> 0, e |-> -53, m |-> <<19661, 6553, 13107, 230>>]   \* 0x3FECCCCCCCCCCCCD
F1_1 == [k |-> "fin", s |-> 0, e |-> -52, m |-> <<6554, 13107, 26214, 140>>]  \* 0x3FF199999999999A
F2_0 == FromInt(2)
F255_0 == FromInt(255)

(***************************************************************************)
(* u16 arithmetic.  With overflow checks (the debug profile) an overflow   *)
(* panics; without them (the release profile) the result wraps.  An        *)
(* operation yields [v, of]: the wrapped value and whether it overflowed.  *)
(***************************************************************************)
U16 == 65536

AddU16(a, b) == [v |-> (a + b) % U16, of |-> a + b >= U16]
\* a * b without leaving 32 bits: a * b = (a * hi(b)) * 256 + a * lo(b)
MulU16(a, b) ==
    LET hi == a * (b \div 256)
        lo == a * (b % 256)
    IN  [v  |-> (((hi % 256) * 256) + lo) % U16,
         of |-> hi >= 256 \/ hi * 256 + lo >= U16]

None == [some |-> FALSE, v |-> 0]
Some(x) == [some |-> TRUE, v |-> x]
checked_sub(a, b) == IF a >= b THEN Some(a - b) ELSE None
unwrap_or(o, d) == IF o.some THEN o.v ELSE d

(***************************************************************************)
(* struct Mandelbrot and its methods.  A method is the value of self after *)
(* the call.                                                               *)
(***************************************************************************)
Mandelbrot_new(max_iterations, x_min, x_max, y_min, y_max) ==
    [max_iterations |-> max_iterations,
     x_min |-> x_min, x_max |-> x_max, y_min |-> y_min, y_max |-> y_max]

\* self.max_iterations += 100 wraps when it is not checked ...
increase_max_iterations(self) ==
    [self EXCEPT !.max_iterations = AddU16(@, 100).v]
\* ... and panics, before the store, when it is
increase_overflows(self) == AddU16(self.max_iterations, 100).of

decrease_max_iterations(self) ==
    [self EXCEPT !.max_iterations = unwrap_or(checked_sub(@, 100), 100)]

pan_left(self) ==
    LET pan == FMul(FSub(self.x_max, self.x_min), F0_1)
    IN  [self EXCEPT !.x_min = FSub(@, pan), !.x_max = FSub(@, pan)]

\* pan_right with the sign of pan_left
pan_right_subtracts(self) ==
    LET pan == FMul(FSub(self.x_max, self.x_min), F0_1)
    IN  [self EXCEPT !.x_min = FSub(@, pan), !.x_max = FSub(@, pan)]

pan_right(self) ==
    LET pan == FMul(FSub(self.x_max, self.x_min), F0_1)
    IN  [self EXCEPT !.x_min = FAdd(@, pan), !.x_max = FAdd(@, pan)]

\* pan_up without its update of y_max
pan_up_moves_y_min_only(self) ==
    LET pan == FMul(FSub(self.y_max, self.y_min), F0_1)
    IN  [self EXCEPT !.y_min = FSub(@, pan)]

pan_up(self) ==
    LET pan == FMul(FSub(self.y_max, self.y_min), F0_1)
    IN  [self EXCEPT !.y_min = FSub(@, pan), !.y_max = FSub(@, pan)]

\* pan_down with x_max written for y_max
pan_down_moves_x_max(self) ==
    LET pan == FMul(FSub(self.y_max, self.y_min), F0_1)
    IN  [self EXCEPT !.y_min = FAdd(@, pan), !.x_max = FAdd(@, pan)]

pan_down(self) ==
    LET pan == FMul(FSub(self.y_max, self.y_min), F0_1)
    IN  [self EXCEPT !.y_min = FAdd(@, pan), !.y_max = FAdd(@, pan)]

\* zoom_in without its update of the y bounds
zoom_in_keeps_y(self) ==
    LET x_center == FDiv(FAdd(self.x_min, self.x_max), F2_0)
        x_range  == FMul(FSub(self.x_max, self.x_min), F0_9)
    IN  [self EXCEPT !.x_min = FSub(x_center, FDiv(x_range, F2_0)),
                     !.x_max = FAdd(x_center, FDiv(x_range, F2_0))]

zoom_in(self) ==
    LET x_center == FDiv(FAdd(self.x_min, self.x_max), F2_0)
        y_center == FDiv(FAdd(self.y_min, self.y_max), F2_0)
        x_range  == FMul(FSub(self.x_max, self.x_min), F0_9)
        y_range  == FMul(FSub(self.y_max, self.y_min), F0_9)
    IN  [self EXCEPT !.x_min = FSub(x_center, FDiv(x_range, F2_0)),
                     !.x_max = FAdd(x_center, FDiv(x_range, F2_0)),
                     !.y_min = FSub(y_center, FDiv(y_range, F2_0)),
                     !.y_max = FAdd(y_center, FDiv(y_range, F2_0))]

\* zoom_out with the factor of zoom_in
zoom_out_shrinks(self) == zoom_in(self)

zoom_out(self) ==
    LET x_center == FDiv(FAdd(self.x_min, self.x_max), F2_0)
        y_center == FDiv(FAdd(self.y_min, self.y_max), F2_0)
        x_range  == FMul(FSub(self.x_max, self.x_min), F1_1)
        y_range  == FMul(FSub(self.y_max, self.y_min), F1_1)
    IN  [self EXCEPT !.x_min = FSub(x_center, FDiv(x_range, F2_0)),
                     !.x_max = FAdd(x_center, FDiv(x_range, F2_0)),
                     !.y_min = FSub(y_center, FDiv(y_range, F2_0)),
                     !.y_max = FAdd(y_center, FDiv(y_range, F2_0))]

(***************************************************************************)
(* impl Widget for &Mandelbrot: render.  An area is <<width, height>>, two *)
(* u16.  The escape loop runs on num_complex values, so its result n is an *)
(* input of the model: the loop stops with n = max_iterations, or earlier  *)
(* at the first n >= 1 where |z|^2 > 4.0 (z starts at 0, so the first      *)
(* iteration always runs when max_iterations > 0).                         *)
(***************************************************************************)
iteration_counts(self, max_esc) ==
    {n \in 1..max_esc : n < self.max_iterations} \cup {self.max_iterations}

\* area.width * area.height * 2
pixels_size(area) ==
    LET wh == MulU16(area[1], area[2])
        sz == MulU16(wh.v, 2)
    IN  [v |-> sz.v, of |-> wh.of \/ sz.of]

\* 0..area.height * 2
sample_rows(area) == MulU16(area[2], 2)

(***************************************************************************)
(* The escape loop itself, for the frames that are computed from the       *)
(* viewport.  A Complex<f64> is [re, im]; num_complex multiplies as        *)
(* (a.re * b.re - a.im * b.im, a.re * b.im + a.im * b.re), adds by         *)
(* component, and norm_sqr is re * re + im * im, all in f64.               *)
(***************************************************************************)
F4_0 == FromInt(4)
Complex_new(re, im) == [re |-> re, im |-> im]
complex_mul(a, b) ==
    Complex_new(FSub(FMul(a.re, b.re), FMul(a.im, b.im)),
                FAdd(FMul(a.re, b.im), FMul(a.im, b.re)))
complex_add(a, b) == Complex_new(FAdd(a.re, b.re), FAdd(a.im, b.im))
norm_sqr(z) == FAdd(FMul(z.re, z.re), FMul(z.im, z.im))
\* a <= b on f64: false when either is NaN
FLe(a, b) == a.k # "nan" /\ b.k # "nan" /\ ~FLt(b, a)

\* let x_step = (self.x_max - self.x_min) / area.width as f64
x_step(self, area) == FDiv(FSub(self.x_max, self.x_min), FromInt(area[1]))
\* let y_step = (self.y_max - self.y_min) / area.height as f64 / 2.0
y_step(self, area) == FDiv(FDiv(FSub(self.y_max, self.y_min), FromInt(area[2])), F2_0)
\* the point c of the sample (x, y)
sample_point(self, area, x, y) ==
    Complex_new(FAdd(self.x_min, FMul(FromInt(x), x_step(self, area))),
                FAdd(self.y_min, FMul(FromInt(y), y_step(self, area))))

\* the locals of the sample loop for one sample: the point c, and z and n
\* before the first test of the while loop
sample_locals(c) == [c |-> c, z |-> Complex_new(Zero(0), Zero(0)), n |-> 0]
\* z.norm_sqr() <= 4.0 && n < self.max_iterations: two tests without
\* effects, n taken first
escape_continues(st, max_iterations) ==
    st.n < max_iterations /\ FLe(norm_sqr(st.z), F4_0)
\* z = z * z + c; n += 1
escape_step(st) ==
    [st EXCEPT !.z = complex_add(complex_mul(st.z, st.z), st.c), !.n = st.n + 1]
\* the locals after at most k more iterations of the while loop, the
\* iterations taken half by half
RECURSIVE escape_loop(_, _, _)
escape_loop(st, max_iterations, k) ==
    IF k = 0 \/ ~escape_continues(st, max_iterations) THEN st
    ELSE IF k = 1 THEN escape_step(st)
    ELSE escape_loop(escape_loop(st, max_iterations, k \div 2),
                     max_iterations, k - (k \div 2))
\* n when the while loop ends, for the point c
escape_count(self, c) ==
    escape_loop(sample_locals(c), self.max_iterations, self.max_iterations).n
\* n of every sample of the grid
escape_counts(self, area) ==
    [s \in (0..(area[1] - 1)) \X (0..(sample_rows(area).v - 1)) |->
        escape_count(self, sample_point(self, area, s[1], s[2]))]


\* y * area.width + x
sample_index(area, x, y) ==
    LET yw == MulU16(y, area[1])
        ix == AddU16(yw.v, x)
    IN  [v |-> ix.v, of |-> yw.of \/ ix.of]

\* y * 2 * area.width + x
top_index(area, x, y) ==
    LET y2 == MulU16(y, 2)
        yw == MulU16(y2.v, area[1])
        ix == AddU16(yw.v, x)
    IN  [v |-> ix.v, of |-> y2.of \/ yw.of \/ ix.of]

\* (y * 2 + 1) * area.width + x
bottom_index(area, x, y) ==
    LET y2 == MulU16(y, 2)
        y1 == AddU16(y2.v, 1)
        yw == MulU16(y1.v, area[1])
        ix == AddU16(yw.v, x)
    IN  [v |-> ix.v, of |-> y2.of \/ y1.of \/ yw.of \/ ix.of]

NoPanic == "no panic"
PanicAdd == "attempt to add with overflow"
PanicMul == "attempt to multiply with overflow"
PanicIndex == "index out of bounds"

\* The panic a render of this area ends in, if any.  With overflow checks
\* the arithmetic panics where it overflows; without them it wraps and the
\* wrapped values are used as lengths and indices.
render_panic(area, checks) ==
    LET len  == pixels_size(area).v
        rows == sample_rows(area)
    IN  IF checks /\ (pixels_size(area).of \/ rows.of) THEN PanicMul
        ELSE IF \E y \in 0..(rows.v - 1) : \E x \in 0..(area[1] - 1) :
                    sample_index(area, x, y).v >= len THEN PanicIndex
        ELSE IF \E y \in 0..(area[2] - 1) : \E x \in 0..(area[1] - 1) :
                    \/ top_index(area, x, y).v >= len
                    \/ bottom_index(area, x, y).v >= len THEN PanicIndex
        ELSE NoPanic

\* The pixels vector after the sample loop: n(x, y) is stored at
\* sample_index(x, y); an entry no sample writes keeps its initial 0.
sample_pixels(area, n) ==
    [i \in 0..(pixels_size(area).v - 1) |->
        LET hit == {s \in (0..(area[1] - 1)) \X (0..(sample_rows(area).v - 1)) :
                        sample_index(area, s[1], s[2]).v = i}
        IN  IF hit = {} THEN 0 ELSE n[CHOOSE s \in hit : TRUE]]

\* the counting loop with count <= self.max_iterations for its test
histogram_counts_all(self, pixels) ==
    [i \in 0..self.max_iterations |->
        Cardinality({p \in DOMAIN pixels : pixels[p] = i})]

\* histogram[i] after the counting loop (vec of max_iterations + 1 zeros,
\* one increment per pixel whose count is below max_iterations)
histogram(self, pixels) ==
    [i \in 0..self.max_iterations |->
        IF i < self.max_iterations
        THEN Cardinality({p \in DOMAIN pixels : pixels[p] = i})
        ELSE 0]

\* the indices at which render reads or writes histogram: histogram[count]
\* in the counting loop, histogram[i] for i in 0..histogram.len() in the
\* summation, histogram[i] for i in 0..count in the brightness loop
histogram_accesses(self, pixels) ==
    {pixels[p] : p \in {q \in DOMAIN pixels : pixels[q] < self.max_iterations}}
    \cup (0..self.max_iterations)
    \cup UNION {0..(pixels[p] - 1) :
                  p \in {q \in DOMAIN pixels : pixels[q] # self.max_iterations}}

RECURSIVE SumOver(_, _)
SumOver(f, S) ==
    IF S = {} THEN 0
    ELSE LET i == CHOOSE j \in S : \A k \in S : j <= k
         IN  f[i] + SumOver(f, S \ {i})

\* total: the sum of all buckets.  A bucket that no pixel hit holds 0, so
\* the sum runs over the buckets that were hit.
histogram_total(self, pixels) ==
    SumOver(histogram(self, pixels),
            {pixels[p] : p \in DOMAIN pixels} \cap (0..self.max_iterations))

\* *brightness += histogram[i] as f64 / total as f64, for the buckets i of S
\* in increasing order
RECURSIVE accumulate(_, _, _, _)
\* the loop body with -= for +=
accumulate_next_subtracts(acc, hist, total, S, i) ==
    accumulate(FSub(acc, FDiv(FromInt(hist[i]), FromInt(total))), hist, total, S \ {i})
accumulate_next(acc, hist, total, S, i) ==
    accumulate(FAdd(acc, FDiv(FromInt(hist[i]), FromInt(total))), hist, total, S \ {i})
accumulate(acc, hist, total, S) ==
    IF S = {} THEN acc
    ELSE accumulate_next(acc, hist, total, S, CHOOSE j \in S : \A k \in S : j <= k)

\* the sum of the loop for i in 0..=count
brightness_sum_inclusive(hist, total, count) ==
    IF total = 0 THEN NaN
    ELSE accumulate(Zero(0), hist, total, {i \in 0..count : hist[i] # 0})

\* the sum the loop for i in 0..count leaves in *brightness.  With
\* total = 0 every term is 0.0 / 0.0, which is NaN; otherwise an empty bucket
\* adds 0.0 / total = 0.0, which leaves the sum as it is, so the sum runs
\* over the buckets that hold samples.
brightness_sum(hist, total, count) ==
    IF count > 0 /\ total = 0 THEN NaN
    ELSE accumulate(Zero(0), hist, total, {i \in 0..(count - 1) : hist[i] # 0})

\* the brightness loop without its skip of the pixels that never escaped
pixel_brightness_no_skip(self, hist, total, count) ==
    [v |-> brightness_sum(hist, total, count), divisions |-> count]

\* one pass of the brightness loop, for the pixel count: the brightness v
\* it leaves and how many times it divides by total
pixel_brightness(self, hist, total, count) ==
    IF count = self.max_iterations THEN [v |-> Zero(0), divisions |-> 0]
    ELSE [v |-> brightness_sum(hist, total, count), divisions |-> count]

\* (v * 255.0).floor() as u8: the cast saturates and sends NaN to 0
floor_as_u8(v) ==
    IF v.k = "nan" THEN 0
    ELSE IF v.k = "inf" THEN (IF v.s = 1 THEN 0 ELSE 255)
    ELSE IF IsZero(v) \/ v.s = 1 THEN 0
    ELSE IF BBitLen(v.m) + v.e > 8 THEN 255
    ELSE LET n == IF v.e >= 0 THEN BShl(v.m, v.e) ELSE BShr(v.m, 0 - v.e)
         IN  IF n = <<>> THEN 0 ELSE n[1]

Rgb(r, g, b) == <<r, g, b>>

\* the buffer cells after the cell loop
render_cells(area, brightness) ==
    [c \in (0..(area[1] - 1)) \X (0..(area[2] - 1)) |->
        LET top    == brightness[top_index(area, c[1], c[2]).v]
            bottom == brightness[bottom_index(area, c[1], c[2]).v]
        IN  [fg |-> Rgb(0, 0, floor_as_u8(FMul(top, F255_0))),
             bg |-> Rgb(0, 0, floor_as_u8(FMul(bottom, F255_0))),
             symbol |-> "upper half block"]]

\* the locals of a render that runs to its end
render_pixels(self, area, pixels, total, loop) ==
    [area       |-> area,
     pixels     |-> pixels,
     total      |-> total,
     brightness |-> [p \in DOMAIN pixels |-> loop[p].v],
     divisions  |-> SumOver([p \in DOMAIN pixels |-> loop[p].divisions], DOMAIN pixels),
     cells      |-> render_cells(area, [p \in DOMAIN pixels |-> loop[p].v])]
render_counted(self, area, pixels, total) ==
    render_pixels(self, area, pixels, total,
                  [p \in DOMAIN pixels |->
                      pixel_brightness(self, histogram(self, pixels), total, pixels[p])])
render(self, area, n) ==
    render_counted(self, area, sample_pixels(area, n),
                   histogram_total(self, sample_pixels(area, n)))

(***************************************************************************)
(* Events delivered by crossterm's event::read().                          *)
(***************************************************************************)
KeyCodes ==
    {"Char('q')", "Esc", "Char('+')", "Char('-')", "Char('k')", "Up",
     "Char('j')", "Down", "Char('h')", "Left", "Char('l')", "Right",
     "Char('z')", "PageUp", "Char('x')", "PageDown", "Char('a')", "Enter"}
KeyEventKinds == {"Press", "Repeat", "Release"}
Key(code, kind) == [tag |-> "Key", code |-> code, kind |-> kind]
Press(code) == Key(code, "Press")
OtherEvents == {[tag |-> "Resize", code |-> "", kind |-> ""],
                [tag |-> "FocusGained", code |-> "", kind |-> ""]}
Events == {Key(c, k) : c \in KeyCodes, k \in KeyEventKinds} \cup OtherEvents
NoEvent == [tag |-> "none", code |-> "", kind |-> ""]
NoFrame == [area |-> <<0, 0>>, pixels |-> <<>>, total |-> 0,
            brightness |-> <<>>, divisions |-> 0, cells |-> <<>>]

\* bounds of the exploration
MaxEvents == 2
MaxViewEvents == 3
MaxEsc == 2
MaxSamples == 4
MaxZoomIns == 20
MaxFrameEvents == 1

\* terminal sizes: the grids of at most MaxSamples samples, and two large
\* terminals of fewer than 65536 cells
SmallAreas == {a \in (1..MaxSamples) \X (1..MaxSamples) : a[1] * a[2] * 2 <= MaxSamples}
LargeAreas == {<<256, 128>>, <<200, 170>>}
OneCell == {<<1, 1>>}
OneCellOrLarge == {<<1, 1>>, <<256, 128>>}

VARIABLES
    mandelbrot,       \* App.mandelbrot
    exit,             \* App.exit
    pc,               \* where App::run is: "loop", "events", or how it ended
    panic,            \* the panic that ended the run, NoPanic if none
    overflow_checks,  \* whether the build checks integer overflow
    event,            \* the last event handle_events read
    nevents,          \* how many events have been read, where that is bounded
    frame             \* the locals of the last render that ran to its end

vars == <<mandelbrot, exit, pc, panic, overflow_checks, event, nevents, frame>>

\* Mandelbrot::new(10000, -2.0, 1.0, -1.0, 1.0)
initial_mandelbrot ==
    Mandelbrot_new(10000, FNeg(FromInt(2)), FromInt(1), FNeg(FromInt(1)), FromInt(1))

\* App::new, before run has taken a step
Init ==
    /\ mandelbrot = initial_mandelbrot
    /\ exit = FALSE
    /\ pc = "loop"
    /\ panic = NoPanic
    /\ overflow_checks \in BOOLEAN
    /\ event = NoEvent
    /\ nevents = 0
    /\ frame = NoFrame

\* the loop drawing only its first frame: later iterations leave the frame
\* of the previous one on the terminal
run_draw_in_first_frame_only(areas, max_esc) ==
    /\ pc = "loop"
    /\ ~exit
    /\ \E a \in areas :
          LET p == render_panic(a, overflow_checks)
          IN  IF p # NoPanic
              THEN /\ pc' = "panic"
                   /\ panic' = p
                   /\ UNCHANGED frame
              ELSE \E n \in [(0..(a[1] - 1)) \X (0..(sample_rows(a).v - 1))
                                -> iteration_counts(mandelbrot, max_esc)] :
                      /\ frame' = IF frame = NoFrame THEN render(mandelbrot, a, n) ELSE frame
                      /\ pc' = "events"
                      /\ UNCHANGED panic
    /\ UNCHANGED <<mandelbrot, exit, overflow_checks, event, nevents>>

\* the loop without its test of self.exit
run_draw_in_ignoring_exit(areas, max_esc) ==
    /\ pc = "loop"
    /\ \E a \in areas :
          LET p == render_panic(a, overflow_checks)
          IN  IF p # NoPanic
              THEN /\ pc' = "panic"
                   /\ panic' = p
                   /\ UNCHANGED frame
              ELSE \E n \in [(0..(a[1] - 1)) \X (0..(sample_rows(a).v - 1))
                                -> iteration_counts(mandelbrot, max_esc)] :
                      /\ frame' = render(mandelbrot, a, n)
                      /\ pc' = "events"
                      /\ UNCHANGED panic
    /\ UNCHANGED <<mandelbrot, exit, overflow_checks, event, nevents>>

\* terminal.draw(|frame| self.render(frame)) in an iteration of the loop:
\* the widget is rendered into frame.area()
run_draw_in(areas, max_esc) ==
    /\ pc = "loop"
    /\ ~exit
    /\ \E a \in areas :
          LET p == render_panic(a, overflow_checks)
          IN  IF p # NoPanic
              THEN /\ pc' = "panic"
                   /\ panic' = p
                   /\ UNCHANGED frame
              ELSE \E n \in [(0..(a[1] - 1)) \X (0..(sample_rows(a).v - 1))
                                -> iteration_counts(mandelbrot, max_esc)] :
                      /\ frame' = render(mandelbrot, a, n)
                      /\ pc' = "events"
                      /\ UNCHANGED panic
    /\ UNCHANGED <<mandelbrot, exit, overflow_checks, event, nevents>>

\* the draw with a render that leaves the viewport one pan to the right
run_draw_computed_moving_viewport(areas) ==
    /\ pc = "loop"
    /\ ~exit
    /\ \E a \in areas :
          LET p == render_panic(a, overflow_checks)
          IN  IF p # NoPanic
              THEN /\ pc' = "panic"
                   /\ panic' = p
                   /\ UNCHANGED <<frame, mandelbrot>>
              ELSE /\ frame' = render(mandelbrot, a, escape_counts(mandelbrot, a))
                   /\ mandelbrot' = pan_right(mandelbrot)
                   /\ pc' = "events"
                   /\ UNCHANGED panic
    /\ UNCHANGED <<exit, overflow_checks, event, nevents>>

\* terminal.draw(|frame| self.render(frame)) with the counts n computed by
\* the escape loop from the viewport and the grid
run_draw_computed(areas) ==
    /\ pc = "loop"
    /\ ~exit
    /\ \E a \in areas :
          LET p == render_panic(a, overflow_checks)
          IN  IF p # NoPanic
              THEN /\ pc' = "panic"
                   /\ panic' = p
                   /\ UNCHANGED frame
              ELSE /\ frame' = render(mandelbrot, a, escape_counts(mandelbrot, a))
                   /\ pc' = "events"
                   /\ UNCHANGED panic
    /\ UNCHANGED <<mandelbrot, exit, overflow_checks, event, nevents>>

\* terminal.draw(..)? returns the I/O error of the backend
run_draw_err ==
    /\ pc = "loop"
    /\ ~exit
    /\ pc' = "err"
    /\ UNCHANGED <<mandelbrot, exit, panic, overflow_checks, event, nevents, frame>>

\* while !self.exit fails: run returns Ok(())
run_return ==
    /\ pc = "loop"
    /\ exit
    /\ pc' = "done"
    /\ UNCHANGED <<mandelbrot, exit, panic, overflow_checks, event, nevents, frame>>

\* the match with the arms of Left and Right exchanged
on_key_left_is_right(self, code) ==
    CASE code \in {"Char('+')"}             -> increase_max_iterations(self)
      [] code \in {"Char('-')"}             -> decrease_max_iterations(self)
      [] code \in {"Char('k')", "Up"}       -> pan_up(self)
      [] code \in {"Char('j')", "Down"}     -> pan_down(self)
      [] code \in {"Char('h')", "Left"}     -> pan_right(self)
      [] code \in {"Char('l')", "Right"}    -> pan_left(self)
      [] code \in {"Char('z')", "PageUp"}   -> zoom_in(self)
      [] code \in {"Char('x')", "PageDown"} -> zoom_out(self)
      [] OTHER                              -> self

\* the match of handle_events on a key press
on_key(self, code) ==
    CASE code \in {"Char('+')"}             -> increase_max_iterations(self)
      [] code \in {"Char('-')"}             -> decrease_max_iterations(self)
      [] code \in {"Char('k')", "Up"}       -> pan_up(self)
      [] code \in {"Char('j')", "Down"}     -> pan_down(self)
      [] code \in {"Char('h')", "Left"}     -> pan_left(self)
      [] code \in {"Char('l')", "Right"}    -> pan_right(self)
      [] code \in {"Char('z')", "PageUp"}   -> zoom_in(self)
      [] code \in {"Char('x')", "PageDown"} -> zoom_out(self)
      [] OTHER                              -> self

\* App::handle_events, reading the event ev; limit > 0 bounds the number of
\* events read
handle_events_in(events, limit) ==
    /\ pc = "events"
    /\ limit > 0 => nevents < limit
    /\ \E ev \in events :
          /\ event' = ev
          /\ IF ev.tag # "Key" \/ ev.kind # "Press"
             THEN /\ pc' = "loop"
                  /\ UNCHANGED <<mandelbrot, exit, panic>>
             ELSE IF ev.code \in {"Char('q')", "Esc"}
             THEN /\ exit' = TRUE
                  /\ pc' = "loop"
                  /\ UNCHANGED <<mandelbrot, panic>>
             ELSE IF /\ ev.code = "Char('+')"
                     /\ overflow_checks
                     /\ increase_overflows(mandelbrot)
             THEN /\ pc' = "panic"
                  /\ panic' = PanicAdd
                  /\ UNCHANGED <<mandelbrot, exit>>
             ELSE /\ mandelbrot' = on_key(mandelbrot, ev.code)
                  /\ pc' = "loop"
                  /\ UNCHANGED <<exit, panic>>
    /\ nevents' = IF limit > 0 THEN nevents + 1 ELSE nevents
    /\ UNCHANGED <<overflow_checks, frame>>

\* event::read()? returns an I/O error
handle_events_err ==
    /\ pc = "events"
    /\ pc' = "err"
    /\ UNCHANGED <<mandelbrot, exit, panic, overflow_checks, event, nevents, frame>>

(***************************************************************************)
(* The application under every event, for MaxEvents events.                *)
(***************************************************************************)
run_draw == run_draw_in(OneCellOrLarge, 0)
handle_events == handle_events_in(Events, MaxEvents)
Next == run_draw \/ run_draw_err \/ run_return \/ handle_events \/ handle_events_err
Spec == Init /\ [][Next]_vars

(***************************************************************************)
(* The depth commands and quit, for any number of events.                  *)
(***************************************************************************)
DepthEvents == {Press("Char('+')"), Press("Char('-')"), Press("Char('q')")}
run_draw_one == run_draw_in(OneCell, 0)
handle_events_depth == handle_events_in(DepthEvents, 0)
NextDepth ==
    run_draw_one \/ run_draw_err \/ run_return \/ handle_events_depth \/ handle_events_err
SpecDepth == Init /\ [][NextDepth]_vars

(***************************************************************************)
(* Zooming out and quit, for any number of events.                         *)
(***************************************************************************)
ZoomOutEvents == {Press("Char('x')"), Press("Esc")}
handle_events_zoom_out == handle_events_in(ZoomOutEvents, 0)
NextZoomOut ==
    run_draw_one \/ run_draw_err \/ run_return \/ handle_events_zoom_out \/ handle_events_err
SpecZoomOut == Init /\ [][NextZoomOut]_vars

(***************************************************************************)
(* The pan and zoom commands and quit, for MaxViewEvents events.           *)
(***************************************************************************)
ViewEvents == {Press(c) : c \in {"Left", "Right", "Up", "Down", "PageUp", "PageDown", "Esc"}}
handle_events_view == handle_events_in(ViewEvents, MaxViewEvents)
NextView ==
    run_draw_one \/ run_draw_err \/ run_return \/ handle_events_view \/ handle_events_err
SpecView == Init /\ [][NextView]_vars

(***************************************************************************)
(* Rendering: every grid of SmallAreas and LargeAreas, at the depth that   *)
(* 100 decrease commands lead to and the two depths that increase commands *)
(* lead to from there.                                                     *)
(***************************************************************************)
RenderDepths == {0, 100, 200}
InitRender ==
    /\ \E d \in RenderDepths :
          mandelbrot = [initial_mandelbrot EXCEPT !.max_iterations = d]
    /\ exit = FALSE
    /\ pc = "loop"
    /\ panic = NoPanic
    /\ overflow_checks \in BOOLEAN
    /\ event = NoEvent
    /\ nevents = 0
    /\ frame = NoFrame
QuitEvents == {Press("Char('q')")}
run_draw_all == run_draw_in(SmallAreas \cup LargeAreas, MaxEsc)
handle_events_quit == handle_events_in(QuitEvents, 0)
NextRender ==
    run_draw_all \/ run_draw_err \/ run_return \/ handle_events_quit \/ handle_events_err
SpecRender == InitRender /\ [][NextRender]_vars

(***************************************************************************)
(* Exact arithmetic on finite values, for statements with a tolerance: a   *)
(* difference or a multiple is kept unrounded as [s, m, e].                *)
(***************************************************************************)
ExactSigned(sa, x, sb, y, e0, c) ==
    IF sa # sb THEN [k |-> "fin", s |-> sa, e |-> e0, m |-> BAdd(x, y)]
    ELSE IF c >= 0 THEN [k |-> "fin", s |-> sa, e |-> e0, m |-> BSub(x, y)]
    ELSE [k |-> "fin", s |-> 1 - sa, e |-> e0, m |-> BSub(y, x)]
ExactAligned(sa, x, sb, y, e0) == ExactSigned(sa, x, sb, y, e0, BCmp(x, y))
\* a - b
ExactSub(a, b) ==
    IF b.m = <<>> THEN a
    ELSE IF a.m = <<>> THEN [b EXCEPT !.s = 1 - b.s]
    ELSE ExactAligned(a.s, BShl(a.m, a.e - Min(a.e, b.e)),
                      b.s, BShl(b.m, b.e - Min(a.e, b.e)), Min(a.e, b.e))
\* a + b
ExactAdd(a, b) == ExactSub(a, [b EXCEPT !.s = 1 - b.s])
\* a * n for a natural n below Limb
ExactTimes(a, n) == [a EXCEPT !.m = BMulSmall(a.m, n, 0)]
\* |a| <= |b|
MagLe(a, b) == CmpMag(a, b) <= 0
AllFinite(v) ==
    /\ v.x_min.k = "fin" /\ v.x_max.k = "fin"
    /\ v.y_min.k = "fin" /\ v.y_max.k = "fin"

\* the tolerance of an axis: 2^-50 times the larger magnitude of its two
\* bounds (four units in the last place of that bound, or eight)
AxisTol(lo, hi) ==
    IF MagLe(hi, lo) THEN [lo EXCEPT !.s = 0, !.e = @ - 50]
    ELSE [hi EXCEPT !.s = 0, !.e = @ - 50]
\* |a - b| <= tol
Close(a, b, tol) == MagLe(ExactSub(a, b), tol)

\* a step of handle_events that read the event ev
Handled(ev) == pc = "events" /\ pc' # "err" /\ event' = ev

(***************************************************************************)
(* C1.  In every state reachable from the initial viewport by depth        *)
(* commands, max_iterations >= 100.  SpecDepth violates it: 100            *)
(* decrease_depth commands take 10000 to 0.                                *)
(***************************************************************************)
C1_DepthAtLeast100 == mandelbrot.max_iterations >= 100

(***************************************************************************)
(* C2.  Every decrease_depth sets max_iterations to max(m - 100, 100).     *)
(* SpecDepth violates it: from m = 100 the command leaves 0.               *)
(***************************************************************************)
C2_DecreaseSaturatesAt100 ==
    [][Handled(Press("Char('-')"))
         => mandelbrot'.max_iterations = Max(mandelbrot.max_iterations - 100, 100)]_vars

(***************************************************************************)
(* C3.  Every increase_depth returns and leaves max_iterations = m + 100.  *)
(* SpecDepth violates it: at m = 65500 the addition overflows the u16, and *)
(* the command panics or leaves 64.                                        *)
(***************************************************************************)
C3_IncreaseAddsExactly100 ==
    [][Handled(Press("Char('+')"))
         => /\ pc' = "loop"
            /\ mandelbrot'.max_iterations = mandelbrot.max_iterations + 100]_vars

(***************************************************************************)
(* C4.  Between two commands, zoom_in followed by zoom_out applied to the  *)
(* viewport.                                                               *)
(***************************************************************************)
\* hi2 - lo2 is n/100 of hi - lo, within the tolerance of the axis
RangeScaled(lo, hi, lo2, hi2, n) ==
    MagLe(ExactSub(ExactTimes(ExactSub(hi2, lo2), 100), ExactTimes(ExactSub(hi, lo), n)),
          ExactTimes(AxisTol(lo, hi), 100))
\* lo2 + hi2 is lo + hi, within twice the tolerance of the axis
CenterKept(lo, hi, lo2, hi2) ==
    MagLe(ExactSub(ExactAdd(lo2, hi2), ExactAdd(lo, hi)), ExactTimes(AxisTol(lo, hi), 2))
ZoomRoundTrip(v, w, n) ==
    /\ AllFinite(w)
    /\ RangeScaled(v.x_min, v.x_max, w.x_min, w.x_max, n)
    /\ RangeScaled(v.y_min, v.y_max, w.y_min, w.y_max, n)
    /\ CenterKept(v.x_min, v.x_max, w.x_min, w.x_max)
    /\ CenterKept(v.y_min, v.y_max, w.y_min, w.y_max)
    /\ w.max_iterations = v.max_iterations

\* C4 as claimed: zoom_in then zoom_out returns both ranges to their original
\* size and keeps both centers, read with a floating-point tolerance.
\* SpecView violates it in the initial state.
C4_ZoomRoundTripRestoresRanges ==
    pc = "loop" => ZoomRoundTrip(mandelbrot, zoom_out(zoom_in(mandelbrot)), 100)

\* C4 amended: from every viewport reached within MaxViewEvents pan and zoom
\* commands, zoom_in then zoom_out leaves each range at 0.9 * 1.1 = 99/100 of
\* its size and each center where it was, within the tolerance of the axis.
C4_ZoomRoundTripScalesBy99 ==
    pc = "loop" => ZoomRoundTrip(mandelbrot, zoom_out(zoom_in(mandelbrot)), 99)

\* C4 witness: the run has zoomed in and then out from the initial viewport,
\* and the viewport is narrower than the initial one.
C4_Witness ==
    /\ pc = "loop" /\ nevents = 2 /\ event = Press("PageDown")
    /\ mandelbrot = zoom_out(zoom_in(initial_mandelbrot))
    /\ FLt(initial_mandelbrot.x_min, mandelbrot.x_min)
    /\ FLt(mandelbrot.x_max, initial_mandelbrot.x_max)

(***************************************************************************)
(* C5.  Between two commands, each pan followed by its inverse applied to  *)
(* the viewport.                                                           *)
(***************************************************************************)
WithinTolerance(v, w) ==
    /\ AllFinite(w)
    /\ Close(w.x_min, v.x_min, AxisTol(v.x_min, v.x_max))
    /\ Close(w.x_max, v.x_max, AxisTol(v.x_min, v.x_max))
    /\ Close(w.y_min, v.y_min, AxisTol(v.y_min, v.y_max))
    /\ Close(w.y_max, v.y_max, AxisTol(v.y_min, v.y_max))
    /\ w.max_iterations = v.max_iterations

\* w is v after a pan along x and its inverse
XRoundTrip(v, w) ==
    WithinTolerance(v, w) /\ w.y_min = v.y_min /\ w.y_max = v.y_max
\* w is v after a pan along y and its inverse
YRoundTrip(v, w) ==
    WithinTolerance(v, w) /\ w.x_min = v.x_min /\ w.x_max = v.x_max

\* C5 as claimed: a pan followed by its inverse returns all four bounds to
\* their original values.  SpecView violates it in the initial state:
\* pan_left then pan_right leaves x_min = -1.9999999999999998.
C5_PanRoundTripExact ==
    pc = "loop" =>
        /\ pan_right(pan_left(mandelbrot)) = mandelbrot
        /\ pan_left(pan_right(mandelbrot)) = mandelbrot
        /\ pan_down(pan_up(mandelbrot)) = mandelbrot
        /\ pan_up(pan_down(mandelbrot)) = mandelbrot

\* C5 amended: from every viewport reached within MaxViewEvents pan and zoom
\* commands, a pan followed by its inverse returns each bound of the panned
\* axis to within the tolerance of the axis, and leaves the bounds of the
\* other axis and max_iterations exactly as they were.
C5_PanRoundTripWithinTolerance ==
    pc = "loop" =>
        /\ XRoundTrip(mandelbrot, pan_right(pan_left(mandelbrot)))
        /\ XRoundTrip(mandelbrot, pan_left(pan_right(mandelbrot)))
        /\ YRoundTrip(mandelbrot, pan_down(pan_up(mandelbrot)))
        /\ YRoundTrip(mandelbrot, pan_up(pan_down(mandelbrot)))

\* C5 witness: the run has panned left and then right from the initial
\* viewport, and x_min is back near -2 but not at it.
C5_Witness ==
    /\ pc = "loop" /\ nevents = 2 /\ event = Press("Right")
    /\ mandelbrot = pan_right(pan_left(initial_mandelbrot))
    /\ mandelbrot.x_min # initial_mandelbrot.x_min

(***************************************************************************)
(* C6.  In every state reachable from the initial viewport, x_min < x_max  *)
(* and y_min < y_max.  SpecZoomOut violates it: repeated zoom_out commands *)
(* overflow the x range to infinity, and the next one leaves x_min and     *)
(* x_max NaN.                                                              *)
(***************************************************************************)
C6_BoundsOrdered ==
    /\ FLt(mandelbrot.x_min, mandelbrot.x_max)
    /\ FLt(mandelbrot.y_min, mandelbrot.y_max)

(***************************************************************************)
(* C7.  The command of an event, by the key table of handle_events, and    *)
(* what applying exactly that command changes.                             *)
(***************************************************************************)
CommandOf(ev) ==
    IF ev.tag # "Key" \/ ev.kind # "Press" THEN "none"
    ELSE CASE ev.code = "Char('q')" \/ ev.code = "Esc"      -> "quit"
           [] ev.code = "Char('+')"                         -> "increase_depth"
           [] ev.code = "Char('-')"                         -> "decrease_depth"
           [] ev.code = "Char('k')" \/ ev.code = "Up"       -> "pan_up"
           [] ev.code = "Char('j')" \/ ev.code = "Down"     -> "pan_down"
           [] ev.code = "Char('h')" \/ ev.code = "Left"     -> "pan_left"
           [] ev.code = "Char('l')" \/ ev.code = "Right"    -> "pan_right"
           [] ev.code = "Char('z')" \/ ev.code = "PageUp"   -> "zoom_in"
           [] ev.code = "Char('x')" \/ ev.code = "PageDown" -> "zoom_out"
           [] OTHER                                         -> "none"
OnlyCommand(cmd) ==
    CASE cmd = "none"           -> mandelbrot' = mandelbrot /\ exit' = exit
      [] cmd = "quit"           -> mandelbrot' = mandelbrot /\ exit' = TRUE
      [] cmd = "increase_depth" -> mandelbrot' = increase_max_iterations(mandelbrot) /\ exit' = exit
      [] cmd = "decrease_depth" -> mandelbrot' = decrease_max_iterations(mandelbrot) /\ exit' = exit
      [] cmd = "pan_up"         -> mandelbrot' = pan_up(mandelbrot) /\ exit' = exit
      [] cmd = "pan_down"       -> mandelbrot' = pan_down(mandelbrot) /\ exit' = exit
      [] cmd = "pan_left"       -> mandelbrot' = pan_left(mandelbrot) /\ exit' = exit
      [] cmd = "pan_right"      -> mandelbrot' = pan_right(mandelbrot) /\ exit' = exit
      [] cmd = "zoom_in"        -> mandelbrot' = zoom_in(mandelbrot) /\ exit' = exit
      [] cmd = "zoom_out"       -> mandelbrot' = zoom_out(mandelbrot) /\ exit' = exit

\* C7: every step of handle_events that returns has applied exactly the one
\* command of the event it read: the viewport operation of a pressed bound
\* key, or the exit flag for quit, and nothing for an unbound key, for a key
\* event that is not a press and for an event that is no key event.
C7_OneCommandPerEvent ==
    [][pc = "events" /\ pc' = "loop" => OnlyCommand(CommandOf(event'))]_vars

\* C7 witness: the run has read a press of Left and then a release of Left;
\* the viewport is the initial one panned left once.
C7_Witness ==
    /\ pc = "loop" /\ nevents = 2 /\ event = Key("Left", "Release")
    /\ mandelbrot = pan_left(initial_mandelbrot)
    /\ mandelbrot # initial_mandelbrot
    /\ ~exit

(***************************************************************************)
(* C8: a step of handle_events that reads a press of q or Esc sets exit    *)
(* and returns; no step clears exit; and from a state where exit is set    *)
(* the only step is the return of run with Ok: no frame is rendered and no *)
(* event is read.                                                          *)
(***************************************************************************)
C8_QuitEndsTheRun ==
    [][/\ Handled(Press("Char('q')")) \/ Handled(Press("Esc"))
            => exit' /\ pc' = "loop"
       /\ exit => /\ exit'
                  /\ pc = "loop" /\ pc' = "done"
                  /\ UNCHANGED <<mandelbrot, event, nevents, frame, panic>>]_vars

\* C8 witness: the run has returned Ok after a press of Esc.
C8_Witness == exit /\ pc = "done" /\ event = Press("Esc") /\ panic = NoPanic

(***************************************************************************)
(* C9.  Every draw of a non-degenerate area ends without a panic, with a   *)
(* buffer of W * 2H samples and W * H cells.  SpecRender violates it: a    *)
(* terminal of 256 x 128 cells has 2 * W * H = 65536, which overflows the  *)
(* u16 product area.width * area.height * 2.                               *)
(***************************************************************************)
C9_RenderFillsEveryCell ==
    /\ panic \notin {PanicMul, PanicIndex}
    /\ frame # NoFrame =>
          /\ DOMAIN frame.pixels = 0..(frame.area[1] * 2 * frame.area[2] - 1)
          /\ DOMAIN frame.cells = (0..(frame.area[1] - 1)) \X (0..(frame.area[2] - 1))

(***************************************************************************)
(* C10: after every render in which no sample escaped (total = 0), the     *)
(* brightness loop has divided by total zero times and every cell has the  *)
(* colour Rgb(0, 0, 0) as foreground and as background.                    *)
(***************************************************************************)
C10_NoEscapeNoDivision ==
    (frame # NoFrame /\ frame.total = 0) =>
        /\ frame.divisions = 0
        /\ \A c \in DOMAIN frame.cells :
              frame.cells[c].fg = Rgb(0, 0, 0) /\ frame.cells[c].bg = Rgb(0, 0, 0)

\* C10 witness: a frame of four samples at depth 100, none of which escaped.
C10_Witness ==
    /\ pc = "events"
    /\ mandelbrot.max_iterations = 100
    /\ frame.area = <<2, 1>>
    /\ \A p \in DOMAIN frame.pixels : frame.pixels[p] = 100
    /\ frame.total = 0

(***************************************************************************)
(* Histogram colouring.                                                    *)
(***************************************************************************)
\* C11: in every frame, whatever counts the samples have, every brightness
\* is a number b with 0 <= b < 1, and the brightness of a sample whose count
\* is max_iterations is +0.0.
C11_BrightnessInUnitInterval ==
    pc = "events" =>
        \A p \in DOMAIN frame.pixels :
            /\ frame.brightness[p].k = "fin"
            /\ IsZero(frame.brightness[p]) \/ frame.brightness[p].s = 0
            /\ FLt(frame.brightness[p], FromInt(1))
            /\ frame.pixels[p] = mandelbrot.max_iterations
                  => frame.brightness[p] = Zero(0)

\* a frame with a sample that never escapes and an escaped sample whose
\* brightness is above 0
C11_Witness ==
    /\ pc = "events"
    /\ \E p \in DOMAIN frame.pixels : frame.pixels[p] = mandelbrot.max_iterations
    /\ \E p \in DOMAIN frame.pixels :
          /\ frame.pixels[p] < mandelbrot.max_iterations
          /\ FLt(Zero(0), frame.brightness[p])

\* C12: within a frame, of two escaped samples the one with the larger
\* count is at least as bright.
C12_BrightnessMonotone ==
    pc = "events" =>
        \A p, q \in DOMAIN frame.pixels :
            /\ frame.pixels[p] <= frame.pixels[q]
            /\ frame.pixels[q] < mandelbrot.max_iterations
            => /\ frame.brightness[p].k = "fin"
               /\ frame.brightness[q].k = "fin"
               /\ ~FLt(frame.brightness[q], frame.brightness[p])

\* a frame with two escaped samples of different counts, the later one
\* strictly brighter
C12_Witness ==
    /\ pc = "events"
    /\ \E p, q \in DOMAIN frame.pixels :
          /\ frame.pixels[p] < frame.pixels[q]
          /\ frame.pixels[q] < mandelbrot.max_iterations
          /\ FLt(frame.brightness[p], frame.brightness[q])

\* C18: in every frame the histogram has max_iterations + 1 buckets, bucket
\* i < max_iterations holds the number of samples of count i, the last
\* bucket holds none, total is the number of samples that escaped, and
\* every index used on the histogram is below its length.
C18_HistogramCountsEscaped ==
    pc = "events" =>
        /\ DOMAIN histogram(mandelbrot, frame.pixels) = 0..mandelbrot.max_iterations
        /\ \A i \in 0..mandelbrot.max_iterations :
              histogram(mandelbrot, frame.pixels)[i] =
                  IF i = mandelbrot.max_iterations THEN 0
                  ELSE Cardinality({p \in DOMAIN frame.pixels : frame.pixels[p] = i})
        /\ frame.total = Cardinality({p \in DOMAIN frame.pixels :
                                        frame.pixels[p] < mandelbrot.max_iterations})
        /\ frame.total = histogram_total(mandelbrot, frame.pixels)
        /\ histogram_accesses(mandelbrot, frame.pixels)
              \subseteq DOMAIN histogram(mandelbrot, frame.pixels)

\* a frame with escaped samples in two buckets and a sample that never
\* escapes
C18_Witness ==
    /\ pc = "events"
    /\ mandelbrot.max_iterations = 100
    /\ \E p, q, r \in DOMAIN frame.pixels :
          /\ frame.pixels[p] = 1
          /\ frame.pixels[q] = 2
          /\ frame.pixels[r] = 100
    /\ frame.total = Cardinality(DOMAIN frame.pixels) - 1

(***************************************************************************)
(* C16.  Between two commands, each pan applied to the viewport.  A pan of *)
(* the axis [lo, hi] by sign * 0.1 * (hi - lo) gives [lo2, hi2].           *)
(***************************************************************************)
\* 10 * (b2 - b) is sign * (hi - lo), within 10 times the tolerance
ShiftedByTenth(lo, hi, b, b2, sign) ==
    MagLe(ExactSub(ExactTimes(ExactSub(b2, b), 10),
                   [ExactSub(hi, lo) EXCEPT !.s = IF sign < 0 THEN 1 - @ ELSE @]),
          ExactTimes(AxisTol(lo, hi), 10))
\* hi2 - lo2 is hi - lo, within twice the tolerance
SizeKept(lo, hi, lo2, hi2) ==
    MagLe(ExactSub(ExactSub(hi2, lo2), ExactSub(hi, lo)), ExactTimes(AxisTol(lo, hi), 2))
\* the f64 hi2 - lo2 is the f64 hi - lo
SizeSame(lo, hi, lo2, hi2) == FSub(hi2, lo2) = FSub(hi, lo)
PanShifts(lo, hi, lo2, hi2, sign) ==
    /\ lo2.k = "fin" /\ hi2.k = "fin"
    /\ ShiftedByTenth(lo, hi, lo, lo2, sign)
    /\ ShiftedByTenth(lo, hi, hi, hi2, sign)
    /\ IF sign < 0 THEN FLt(lo2, lo) /\ FLt(hi2, hi) ELSE FLt(lo, lo2) /\ FLt(hi, hi2)
    /\ SizeKept(lo, hi, lo2, hi2)
XPan(v, w, sign) ==
    /\ PanShifts(v.x_min, v.x_max, w.x_min, w.x_max, sign)
    /\ w.y_min = v.y_min /\ w.y_max = v.y_max
    /\ w.max_iterations = v.max_iterations
YPan(v, w, sign) ==
    /\ PanShifts(v.y_min, v.y_max, w.y_min, w.y_max, sign)
    /\ w.x_min = v.x_min /\ w.x_max = v.x_max
    /\ w.max_iterations = v.max_iterations
XPanExact(v, w, sign) ==
    XPan(v, w, sign) /\ SizeSame(v.x_min, v.x_max, w.x_min, w.x_max)
YPanExact(v, w, sign) ==
    YPan(v, w, sign) /\ SizeSame(v.y_min, v.y_max, w.y_min, w.y_max)

\* C16 as claimed: a pan shifts both bounds of its axis by a tenth of the
\* range, up and left negative, down and right positive, the width and the
\* height stay exactly what they were, and the other axis and
\* max_iterations are unchanged, the width and the height being the f64
\* x_max - x_min and y_max - y_min.  SpecView violates it after one
\* pan_left: a second one leaves x_max - x_min = 2.9999999999999996.
C16_PanKeepsSizeExactly ==
    pc = "loop" =>
        /\ XPanExact(mandelbrot, pan_left(mandelbrot), -1)
        /\ XPanExact(mandelbrot, pan_right(mandelbrot), 1)
        /\ YPanExact(mandelbrot, pan_up(mandelbrot), -1)
        /\ YPanExact(mandelbrot, pan_down(mandelbrot), 1)

\* C16 amended: from every viewport reached within MaxViewEvents pan and
\* zoom commands, a pan shifts both bounds of its axis by a tenth of the
\* range in its direction, within the tolerance of the axis, the size of
\* the axis is kept within twice that tolerance, and the bounds of the
\* other axis and max_iterations are exactly unchanged.
C16_PanKeepsSizeWithinTolerance ==
    pc = "loop" =>
        /\ XPan(mandelbrot, pan_left(mandelbrot), -1)
        /\ XPan(mandelbrot, pan_right(mandelbrot), 1)
        /\ YPan(mandelbrot, pan_up(mandelbrot), -1)
        /\ YPan(mandelbrot, pan_down(mandelbrot), 1)

\* C16 witness: the run has panned left twice from the initial viewport,
\* and x_max - x_min is no longer 3.0.
C16_Witness ==
    /\ pc = "loop" /\ nevents = 2 /\ event = Press("Left")
    /\ mandelbrot = pan_left(pan_left(initial_mandelbrot))
    /\ FLt(mandelbrot.x_min, initial_mandelbrot.x_min)
    /\ ~SizeSame(initial_mandelbrot.x_min, initial_mandelbrot.x_max,
                 mandelbrot.x_min, mandelbrot.x_max)

(***************************************************************************)
(* C17.  Between two commands, two commands applied to the viewport in     *)
(* both orders.  A command is named by a key that is bound to it.          *)
(***************************************************************************)
DepthCommands == {"Char('+')", "Char('-')"}
XPanCommands == {"Left", "Right"}
YPanCommands == {"Up", "Down"}
ZoomCommands == {"PageUp", "PageDown"}
ViewCommands == XPanCommands \cup YPanCommands \cup ZoomCommands
Commands == DepthCommands \cup ViewCommands
InOrder(v, a, b) == on_key(on_key(v, a), b)

ZoomInEvents == {Press("Char('z')"), Press("Esc")}
handle_events_zoom_in == handle_events_in(ZoomInEvents, 0)
NextDeepZoom ==
    run_draw_one \/ run_draw_err \/ run_return \/ handle_events_zoom_in \/ handle_events_err
SpecDeepZoom == Init /\ [][NextDeepZoom]_vars

\* 2 * (x_max - x_min) is 3 * (y_max - y_min), within 2^-10 of that value
AspectRatioKept(x_range, y_range) ==
    MagLe(ExactSub(ExactTimes(x_range, 2), ExactTimes(y_range, 3)),
          [ExactTimes(y_range, 3) EXCEPT !.e = @ - 10])

\* C19: in every reachable state the four bounds are numbers and
\* (x_max - x_min) / (y_max - y_min) is 3/2, read with a relative tolerance
\* of 2^-10.  SpecDeepZoom violates it: zoom_in rounds the bounds of x,
\* which lie near -0.5, to multiples of 2^-53 or more, while those of y,
\* which lie near 0, keep shrinking, and after 295 zoom_in commands the
\* ratio is off by more than a thousandth.
C19_AspectRatioIsThreeHalves ==
    /\ AllFinite(mandelbrot)
    /\ AspectRatioKept(ExactSub(mandelbrot.x_max, mandelbrot.x_min),
                       ExactSub(mandelbrot.y_max, mandelbrot.y_min))

(***************************************************************************)
(* Zooming in and quit, for MaxZoomIns events.  Until the quit every event *)
(* read is a zoom_in, so nevents counts the zoom_in commands applied.      *)
(***************************************************************************)
handle_events_zoom_in_counted == handle_events_in(ZoomInEvents, MaxZoomIns)
NextZoomIn ==
    run_draw_one \/ run_draw_err \/ run_return \/ handle_events_zoom_in_counted
        \/ handle_events_err
SpecZoomIn == Init /\ [][NextZoomIn]_vars

\* a * k^n
RECURSIVE TimesPower(_, _, _)
TimesPower(a, k, n) == IF n = 0 THEN a ELSE TimesPower(ExactTimes(a, k), k, n - 1)
\* hi2 - lo2 is 0.9^n * (hi - lo), within the tolerance of [lo, hi]
RangeScaledByPower(lo, hi, lo2, hi2, n) ==
    MagLe(ExactSub(TimesPower(ExactSub(hi2, lo2), 10, n), TimesPower(ExactSub(hi, lo), 9, n)),
          TimesPower(AxisTol(lo, hi), 10, n))
\* w is v after n zoom_in commands, up to the tolerance
ZoomedIn(v, w, n) ==
    /\ AllFinite(w)
    /\ RangeScaledByPower(v.x_min, v.x_max, w.x_min, w.x_max, n)
    /\ RangeScaledByPower(v.y_min, v.y_max, w.y_min, w.y_max, n)
    /\ CenterKept(v.x_min, v.x_max, w.x_min, w.x_max)
    /\ CenterKept(v.y_min, v.y_max, w.y_min, w.y_max)
    /\ w.max_iterations = v.max_iterations
\* the centers of w, computed as zoom_in computes them, are those of v
SameCenters(v, w) ==
    /\ FDiv(FAdd(w.x_min, w.x_max), F2_0) = FDiv(FAdd(v.x_min, v.x_max), F2_0)
    /\ FDiv(FAdd(w.y_min, w.y_max), F2_0) = FDiv(FAdd(v.y_min, v.y_max), F2_0)

\* C13 as claimed: after n zoom_in commands from the initial viewport each
\* range is 0.9^n times the initial one, read with the tolerance, and the
\* center is the initial center (-0.5, 0.0).  SpecZoomIn violates it after 4
\* zoom_in commands: (x_min + x_max) / 2 is then -0.49999999999999994, and
\* after 5 it is -0.4999999999999999.
C13_ZoomInKeepsCenter ==
    pc = "loop" /\ ~exit =>
        /\ ZoomedIn(initial_mandelbrot, mandelbrot, nevents)
        /\ SameCenters(initial_mandelbrot, mandelbrot)

\* C13 amended: after n <= MaxZoomIns zoom_in commands from the initial
\* viewport each range is 0.9^n times the initial one and each axis
\* midpoint is the initial one, within a tolerance of 2^-50 times the
\* larger magnitude of the initial bounds of the axis (twice that for the
\* sum of the two bounds), and max_iterations is unchanged.
C13_ZoomInScalesByPower ==
    pc = "loop" /\ ~exit => ZoomedIn(initial_mandelbrot, mandelbrot, nevents)

\* C13 witness: the run has zoomed in 5 times from the initial viewport;
\* the x center computed from the bounds is no longer -0.5.
C13_Witness ==
    /\ pc = "loop" /\ ~exit /\ nevents = 5
    /\ mandelbrot = zoom_in(zoom_in(zoom_in(zoom_in(zoom_in(initial_mandelbrot)))))
    /\ ~SameCenters(initial_mandelbrot, mandelbrot)

(***************************************************************************)
(* C15.  The steps of App::run.                                            *)
(***************************************************************************)
\* frame f is what render leaves for the viewport v, on a grid that is not
\* empty, with every cell of the grid set
RenderedFrom(v, f) ==
    /\ f.area[1] > 0 /\ f.area[2] > 0
    /\ f = render_counted(v, f.area, f.pixels, histogram_total(v, f.pixels))
    /\ DOMAIN f.cells = (0..(f.area[1] - 1)) \X (0..(f.area[2] - 1))

\* C15: every step of the loop is a render or the read of one event, and
\* the two alternate.  A render leaves the viewport alone and reads no
\* event; an event is read only right after a render, whose frame is
\* rendered from the viewport of that moment; the read of an event is
\* followed by no second read before the next render, counts one event,
\* leaves the frame alone, and changes the viewport by at most one command.
C15_RenderThenOneEvent ==
    [][/\ pc = "loop" =>
            /\ pc' \in {"events", "panic", "err", "done"}
            /\ mandelbrot' = mandelbrot /\ event' = event /\ nevents' = nevents
       /\ pc' = "events" => pc = "loop" /\ ~exit /\ RenderedFrom(mandelbrot, frame')
       /\ pc = "events" =>
            /\ pc' \in {"loop", "panic", "err"}
            /\ frame' = frame
            /\ pc' = "loop" =>
                  /\ nevents' = nevents + 1
                  /\ \/ mandelbrot' = mandelbrot
                     \/ \E c \in Commands : mandelbrot' = on_key(mandelbrot, c)
       /\ pc \in {"panic", "err", "done"} => UNCHANGED vars]_vars

\* C15 witness: the run has rendered, read one event, an increase of the
\* depth, and rendered again: the frame on the terminal is the one of the
\* new depth.
C15_Witness ==
    /\ pc = "events" /\ nevents = 1 /\ event = Press("Char('+')")
    /\ mandelbrot.max_iterations = 10100
    /\ frame.area = <<1, 1>>
    /\ \A p \in DOMAIN frame.pixels : frame.pixels[p] = 10100

(***************************************************************************)
(* Frames computed from the viewport: the small grids and one large        *)
(* terminal, from the depth that 99 decrease commands lead to, under a key *)
(* release, a zoom, a decrease of the depth and quit, for MaxFrameEvents    *)
(* events.                                                                 *)
(***************************************************************************)
InitFrames ==
    /\ mandelbrot = [initial_mandelbrot EXCEPT !.max_iterations = 100]
    /\ exit = FALSE
    /\ pc = "loop"
    /\ panic = NoPanic
    /\ overflow_checks \in BOOLEAN
    /\ event = NoEvent
    /\ nevents = 0
    /\ frame = NoFrame
FrameEvents ==
    {Key("Left", "Release"), Press("PageUp"), Press("Char('-')"), Press("Char('q')")}
run_draw_frames == run_draw_computed(SmallAreas \cup {<<256, 128>>})
handle_events_frames == handle_events_in(FrameEvents, MaxFrameEvents)
NextFrames ==
    run_draw_frames \/ run_draw_err \/ run_return \/ handle_events_frames
        \/ handle_events_err
SpecFrames == InitFrames /\ [][NextFrames]_vars

\* the last event read was none of the commands: the viewport is the one
\* of the last render
ViewportKept(ev) == ev.tag # "Key" \/ ev.kind # "Press" \/ ev.code \notin Commands

====
